---------------------------- MODULE Spec2Model ----------------------------
(***************************************************************************)
(* A model of the zero-dependency Node.js CRUD server: the in-memory       *)
(* `users` array of app.js, the users.json backing file of                 *)
(* utils/fileHandler.js, and the request handlers with their await points. *)
(*                                                                         *)
(* JavaScript values are modelled as follows.                              *)
(*   - a scalar is a record [t, n, s]: t is "num", "str" or "undef";       *)
(*   - an object is the sequence of its properties in insertion order,     *)
(*     each property a record [k, t, n, s] (key k and the scalar);         *)
(*   - JSON text is a sequence of tokens [k, v]: punctuation, string       *)
(*     literals, decimal digits, the literal null, and white space.        *)
(* Modelled inputs: request bodies are the texts of Bodies; the backing    *)
(* file found at startup is one of InitFiles (records there carry a        *)
(* numeric id and a string name, as in the data model).                    *)
(***************************************************************************)
EXTENDS Integers, Sequences, FiniteSets, TLC

\* ------------------------------------------------------------------ bounds
\* Largest id a create may assign in a run (caps the max+1 counter).
MaxId == 2
\* Number of requests that may be in flight at the same time.
MaxReq == 2
\* Number of writes to the backing file that may fail in a run.
MaxFailures == 1

\* ------------------------------------------------------- JavaScript values
Num(x) == [t |-> "num", n |-> x, s |-> ""]
Str(x) == [t |-> "str", n |-> 0, s |-> x]
Undefined == [t |-> "undef", n |-> 0, s |-> ""]
Null == [t |-> "null", n |-> 0, s |-> ""]

\* One property of an object.
Prop(key, val) == [k |-> key, t |-> val.t, n |-> val.n, s |-> val.s]
ValueOf(p) == [t |-> p.t, n |-> p.n, s |-> p.s]

Keys(o) == {o[i].k : i \in 1..Len(o)}

\* o[key]: the property's value, undefined when the object has no such key.
Get(o, key) ==
  IF key \in Keys(o)
  THEN ValueOf(o[CHOOSE i \in 1..Len(o) : o[i].k = key])
  ELSE Undefined

\* o[key] = val: an existing property keeps its place, a new one is added last.
Put(o, key, val) ==
  IF key \in Keys(o)
  THEN [i \in 1..Len(o) |-> IF o[i].k = key THEN Prop(key, val) ELSE o[i]]
  ELSE Append(o, Prop(key, val))

\* A test for presence only: anything but undefined passes.
Defined(v) == v.t # "undef"

\* JavaScript truthiness of a scalar (the operand of `!`).
Truthy(v) ==
  CASE v.t = "num" -> v.n # 0
    [] v.t = "str" -> v.s # ""
    [] OTHER -> FALSE

\* -------------------------------------------------------------- JSON text
P(c) == [k |-> "punct", v |-> c]
S(c) == [k |-> "string", v |-> c]
D(c) == [k |-> "digit", v |-> c]
W(c) == [k |-> "space", v |-> c]
NullLit == [k |-> "literal", v |-> "null"]

DigitChars == <<"0", "1", "2", "3", "4", "5", "6", "7", "8", "9">>

\* The decimal digits of a natural number.
RECURSIVE NumberToText(_)
NumberToText(x) ==
  IF x < 10 THEN <<D(DigitChars[x + 1])>>
  ELSE NumberToText(x \div 10) \o <<D(DigitChars[(x % 10) + 1])>>

ScalarToText(v) ==
  CASE v.t = "num" -> NumberToText(v.n)
    [] v.t = "str" -> <<S(v.s)>>
    [] OTHER -> <<NullLit>>

\* The line break and indentation JSON.stringify(_, null, 2) puts at a depth.
Indent(depth) ==
  CASE depth = 0 -> W("\n")
    [] depth = 1 -> W("\n  ")
    [] OTHER -> W("\n    ")

\* The members of an object from the i-th on, one per line.
RECURSIVE MembersToText(_, _, _)
MembersToText(o, i, depth) ==
  IF i > Len(o) THEN <<>>
  ELSE (IF i > 1 THEN <<P(",")>> ELSE <<>>)
       \o <<Indent(depth), S(o[i].k), P(":"), W(" ")>>
       \o ScalarToText(ValueOf(o[i]))
       \o MembersToText(o, i + 1, depth)

\* An object printed at a nesting depth; a property whose value is undefined
\* is left out, as JSON.stringify does.
ObjectToText(o, depth) ==
  LET defined == SelectSeq(o, LAMBDA p : p.t # "undef")
  IN IF defined = <<>> THEN <<P("{"), P("}")>>
     ELSE <<P("{")>> \o MembersToText(defined, 1, depth + 1)
          \o <<Indent(depth), P("}")>>

RECURSIVE ElementsToText(_, _)
ElementsToText(a, i) ==
  IF i > Len(a) THEN <<>>
  ELSE (IF i > 1 THEN <<P(",")>> ELSE <<>>)
       \o <<Indent(1)>> \o ObjectToText(a[i], 1)
       \o ElementsToText(a, i + 1)

\* JSON.stringify(data, null, 2) of an array of objects.
stringify(a) ==
  IF a = <<>> THEN <<P("["), P("]")>>
  ELSE <<P("[")>> \o ElementsToText(a, 1) \o <<Indent(0), P("]")>>

\* ----------------------------------------------------------- JSON.parse
\* What a parse of (part of) a text gives: ok is FALSE on a SyntaxError;
\* kind is "array", "object" or "scalar"; pos is the first token not consumed.
Parsed(kind, obj, arr, val, pos) ==
  [ok |-> TRUE, kind |-> kind, obj |-> obj, arr |-> arr, val |-> val, pos |-> pos]
SyntaxError ==
  [ok |-> FALSE, kind |-> "", obj |-> <<>>, arr |-> <<>>, val |-> Undefined, pos |-> 0]

IsTok(t, i, tok) == i <= Len(t) /\ t[i] = tok
IsKind(t, i, kind) == i <= Len(t) /\ t[i].k = kind

\* The first position from i on that holds no white space.
RECURSIVE SkipSpace(_, _)
SkipSpace(t, i) == IF IsKind(t, i, "space") THEN SkipSpace(t, i + 1) ELSE i

\* The first position from i on that holds no digit.
RECURSIVE DigitsEnd(_, _)
DigitsEnd(t, i) == IF IsKind(t, i, "digit") THEN DigitsEnd(t, i + 1) ELSE i

DigitValue(c) == CHOOSE d \in 0..9 : DigitChars[d + 1] = c

\* The number written by the digits t[i..j], read left to right.
RECURSIVE DigitsToNumber(_, _, _)
DigitsToNumber(t, i, j) ==
  IF j < i THEN 0 ELSE DigitsToNumber(t, i, j - 1) * 10 + DigitValue(t[j].v)

\* A string, a number (no leading zero) or null at position i.
ParseScalar(t, i) ==
  CASE IsKind(t, i, "string") -> Parsed("scalar", <<>>, <<>>, Str(t[i].v), i + 1)
    [] IsTok(t, i, NullLit) -> Parsed("scalar", <<>>, <<>>, Null, i + 1)
    [] IsKind(t, i, "digit") ->
         LET j == DigitsEnd(t, i)
         IN IF t[i].v = "0" /\ j > i + 1 THEN SyntaxError
            ELSE Parsed("scalar", <<>>, <<>>, Num(DigitsToNumber(t, i, j - 1)), j)
    [] OTHER -> SyntaxError

\* The members of an object from position i on, up to and including "}";
\* acc holds the members read so far (a repeated key keeps its first place
\* and takes the last value).
RECURSIVE ParseMembers(_, _, _)

\* What follows a member, at position e: "," and more members, or "}".
AfterMember(t, e, acc) ==
  IF IsTok(t, e, P(",")) THEN ParseMembers(t, e + 1, acc)
  ELSE IF IsTok(t, e, P("}")) THEN Parsed("object", acc, <<>>, Undefined, e + 1)
  ELSE SyntaxError

\* The member of a key whose value has been parsed as v.
MemberValue(t, key, v, acc) ==
  IF ~v.ok THEN SyntaxError
  ELSE AfterMember(t, SkipSpace(t, v.pos), Put(acc, key, v.val))

ParseMembers(t, i, acc) ==
  LET k == SkipSpace(t, i)
      c == SkipSpace(t, k + 1)
  IN IF ~(IsKind(t, k, "string") /\ IsTok(t, c, P(":"))) THEN SyntaxError
     ELSE MemberValue(t, t[k].v, ParseScalar(t, SkipSpace(t, c + 1)), acc)

\* An object whose "{" is at position i.
ParseObject(t, i) ==
  LET j == SkipSpace(t, i + 1)
  IN IF ~IsTok(t, i, P("{")) THEN SyntaxError
     ELSE IF IsTok(t, j, P("}")) THEN Parsed("object", <<>>, <<>>, Undefined, j + 1)
     ELSE ParseMembers(t, j, <<>>)

\* The elements (objects) of an array from position i on, up to and
\* including "]".
RECURSIVE ParseElements(_, _, _)

\* What follows an element, at position e: "," and more elements, or "]".
AfterElement(t, e, acc) ==
  IF IsTok(t, e, P(",")) THEN ParseElements(t, e + 1, acc)
  ELSE IF IsTok(t, e, P("]")) THEN Parsed("array", <<>>, acc, Undefined, e + 1)
  ELSE SyntaxError

\* The element that has been parsed as the object o.
ElementValue(t, o, acc) ==
  IF ~o.ok THEN SyntaxError
  ELSE AfterElement(t, SkipSpace(t, o.pos), Append(acc, o.obj))

ParseElements(t, i, acc) == ElementValue(t, ParseObject(t, SkipSpace(t, i)), acc)

ParseArray(t, i) ==
  LET j == SkipSpace(t, i + 1)
  IN IF IsTok(t, j, P("]")) THEN Parsed("array", <<>>, <<>>, Undefined, j + 1)
     ELSE ParseElements(t, j, <<>>)

\* The value at position i: an array, an object or a scalar.
ParseValue(t, i) ==
  CASE IsTok(t, i, P("[")) -> ParseArray(t, i)
    [] IsTok(t, i, P("{")) -> ParseObject(t, i)
    [] OTHER -> ParseScalar(t, i)

\* The parse r stands when nothing but white space follows it.
WholeText(t, r) ==
  IF r.ok /\ SkipSpace(t, r.pos) = Len(t) + 1 THEN r ELSE SyntaxError

\* JSON.parse(text): one value and nothing but white space around it.
JSONparse(t) == WholeText(t, ParseValue(t, SkipSpace(t, 1)))

\* ------------------------------------------------------------------ inputs
\* Request bodies, as the client sends them.
BodyAlice == <<P("{"), S("name"), P(":"), W(" "), S("Alice"), P("}")>>
BodyBob ==
  <<P("{"), S("id"), P(":"), D("1"), P(","), S("name"), P(":"), S("Bob"), P(","),
    S("email"), P(":"), S("bob@example.org"), P("}")>>
BodyEmptyName == <<P("{"), S("name"), P(":"), S(""), P("}")>>
BodyNoName == <<P("{"), P("}")>>
BodyEmpty == <<>>
BodyTruncated == <<P("{"), S("name"), P(":")>>
BodyNull == <<NullLit>>
Bodies ==
  {BodyAlice, BodyBob, BodyEmptyName, BodyNoName, BodyEmpty, BodyTruncated, BodyNull}
\* The bodies sent to POST where requests overlap: the ones of Bodies but the
\* one with an id and an email of its own.
PlainBodies == Bodies \ {BodyBob}

\* Ids a request path may name: the ids records can have, and one beyond.
ReqIds == 1..(MaxId + 1)

\* The backing file: absent, unreadable (an I/O error other than ENOENT), or
\* present with a text.
File(text) == [st |-> "present", text |-> text]
NoFile == [st |-> "absent", text |-> <<>>]
Unreadable == [st |-> "unreadable", text |-> <<>>]

\* users.json as a run that created one user left it.
OneUser == stringify(<< <<Prop("name", Str("Alice")), Prop("id", Num(1))>> >>)

\* users.json with two users, saved on one line.
TwoUsers ==
  <<P("["),
    P("{"), S("name"), P(":"), S("Alice"), P(","), S("id"), P(":"), D("1"), P("}"), P(","),
    P("{"), S("name"), P(":"), S("Bob"), P(","), S("id"), P(":"), D("2"), P("}"),
    P("]")>>

\* users.json written by hand: three users, the id first, a field more.
Seeded ==
  <<P("["), W("\n"),
    P("{"), S("id"), P(":"), D("1"), P(","), S("name"), P(":"), S("Alice"), P(","),
    S("email"), P(":"), S("alice@example.org"), P("}"), P(","), W("\n"),
    P("{"), S("id"), P(":"), D("2"), P(","), S("name"), P(":"), S("Bob"), P(","),
    S("email"), P(":"), S("bob@example.org"), P("}"), P(","), W("\n"),
    P("{"), S("id"), P(":"), D("3"), P(","), S("name"), P(":"), S("Alice"), P("}"),
    W("\n"), P("]"), W("\n")>>

\* The files the server may find at startup.
InitFiles ==
  {NoFile, Unreadable, File(<<>>), File(<<P("["), P("{")>>),
   File(stringify(<<>>)), File(OneUser), File(TwoUsers)}
SeededFiles == InitFiles \cup {File(Seeded)}

\* ------------------------------------------------------------------- state
VARIABLES
  server,   \* "init" before initializeServer has loaded, "serving", "exited"
  file,     \* users.json
  users,    \* the `users` array of app.js
  req,      \* the handlers in flight, one per slot
  out,      \* the response being sent, NoAnswer when none is
  failures, \* number of writes that have failed so far
  issued    \* every id a record of the collection has had so far (history)

vars == <<server, file, users, req, out, failures, issued>>

Slots == 1..MaxReq

\* A slot no handler runs in.
Free ==
  [pc |-> "free", op |-> "", id |-> 0, userIndex |-> 0, at |-> 0, obj |-> <<>>,
   snap |-> <<>>]

\* The answer to a request: status 0 stands for a request whose handler ended
\* without sending a response; body tells which of rec and list is the payload.
Answer(op, id, status, msg, body, rec, list) ==
  [op |-> op, id |-> id, status |-> status, msg |-> msg, body |-> body,
   rec |-> rec, list |-> list]
NoAnswer == Answer("", 0, 0, "", "none", <<>>, <<>>)

\* sendJSON(res, statusCode, { message })
Message(op, id, status, msg) == Answer(op, id, status, msg, "message", <<>>, <<>>)
\* sendJSON(res, statusCode, record)
Record(op, id, status, rec) == Answer(op, id, status, "", "record", rec, <<>>)

Ids(a) == {Get(a[i], "id").n : i \in 1..Len(a)}

\* The server takes the next event once the last response has left.
Ready == server = "serving" /\ out = NoAnswer

Idle == \A r \in Slots : req[r].pc = "free"
HasFree == \E r \in Slots : req[r].pc = "free"
\* The slot a new request's handler runs in.
NewSlot == CHOOSE r \in Slots : req[r].pc = "free" /\ \A q \in 1..(r - 1) : req[q].pc # "free"

\* ------------------------------------------------------------ fileHandler
\* What readData gives for the parse r of the file's text: the parsed array,
\* or the SyntaxError thrown on.
Returned(r) == [ok |-> r.ok, data |-> r.arr]

\* readData without the test for ENOENT: a missing file is thrown on.
readDataRethrows(f) ==
  CASE f.st = "absent" -> [ok |-> FALSE, data |-> <<>>]
    [] f.st = "unreadable" -> [ok |-> FALSE, data |-> <<>>]
    [] f.text = <<>> -> [ok |-> TRUE, data |-> <<>>]
    [] OTHER -> Returned(JSONparse(f.text))

\* readData with the test of `data` the wrong way round.
readDataInverted(f) ==
  CASE f.st = "absent" -> [ok |-> TRUE, data |-> <<>>]
    [] f.st = "unreadable" -> [ok |-> FALSE, data |-> <<>>]
    [] f.text = <<>> -> [ok |-> FALSE, data |-> <<>>]
    [] OTHER -> [ok |-> TRUE, data |-> <<>>]

\* readData(): ok is FALSE when it throws.
readData(f) ==
  CASE f.st = "absent" -> [ok |-> TRUE, data |-> <<>>]
    [] f.st = "unreadable" -> [ok |-> FALSE, data |-> <<>>]
    [] f.text = <<>> -> [ok |-> TRUE, data |-> <<>>]
    [] OTHER -> Returned(JSONparse(f.text))

\* writeData that leaves the last element out.
writeDataButLast(data) == stringify(SubSeq(data, 1, Len(data) - 1))

\* The text writeData(data) hands to fs.promises.writeFile.
writeData(data) == stringify(data)

\* ------------------------------------------------------------------ app.js
\* parseRequestBody(req), once the body has ended: "reject" on invalid JSON.
parseRequestBody(body) ==
  IF body = <<>> THEN Parsed("object", <<>>, <<>>, Undefined, 1)
  ELSE JSONparse(body)

\* users.findIndex(u => u.id === id), counted from 1; 0 stands for -1.
findIndex(a, id) ==
  IF \E i \in 1..Len(a) : Get(a[i], "id") = Num(id)
  THEN CHOOSE i \in 1..Len(a) :
         /\ Get(a[i], "id") = Num(id)
         /\ \A j \in 1..(i - 1) : Get(a[j], "id") # Num(id)
  ELSE 0

\* users.reduce((max, user) => Math.max(max, user.id), 0)
RECURSIVE reduceMax(_, _, _)
reduceMax(a, i, max) ==
  IF i > Len(a) THEN max
  ELSE reduceMax(a, i + 1, IF Get(a[i], "id").n > max THEN Get(a[i], "id").n ELSE max)

\* A wrong maxId: the number of users, not their largest id.
maxIdCount(a) == Len(a)

maxId(a) == reduceMax(a, 1, 0)

\* body.name of a parsed body: reading it throws a TypeError on null.
NameThrows(b) == b.kind = "scalar" /\ b.val = Null
NameOf(b) == IF b.kind = "object" THEN Get(b.obj, "name") ELSE Undefined

\* The object a create handler holds as newUser: the element of users it
\* pushed while that is still in the array, else the detached object.
NewUserOf(q) == IF q.at > 0 THEN users[q.at] ELSE q.obj

\* A catch block that logs the error and listens all the same.
LoadedAnyway(r) ==
  /\ users' = r.data
  /\ server' = "serving"
  /\ issued' = issued \cup Ids(r.data)

\* users = await readData() and server.listen, or the catch block's
\* process.exit(1) when readData threw.
Loaded(r) ==
  IF r.ok
  THEN /\ users' = r.data
       /\ server' = "serving"
       /\ issued' = issued \cup Ids(r.data)
  ELSE /\ server' = "exited"
       /\ UNCHANGED <<users, issued>>

\* initializeServer()
Startup ==
  /\ server = "init"
  /\ Loaded(readData(file))
  /\ UNCHANGED <<file, req, out, failures>>

\* getAllUsers that lists the newest record first.
getAllUsersNewestFirst ==
  /\ Ready
  /\ out' = Answer("list", 0, 200, "", "list", <<>>,
                   [i \in 1..Len(users) |-> users[Len(users) + 1 - i]])
  /\ UNCHANGED <<server, file, users, req, failures, issued>>

\* GET /api/users
getAllUsers ==
  /\ Ready
  /\ out' = Answer("list", 0, 200, "", "list", <<>>, users)
  /\ UNCHANGED <<server, file, users, req, failures, issued>>

\* GET /api/users/:id
getUserById(id) ==
  /\ Ready
  /\ LET i == findIndex(users, id)
     IN out' = IF i # 0 THEN Record("get", id, 200, users[i])
               ELSE Message("get", id, 404, "User Not Found")
  /\ UNCHANGED <<server, file, users, req, failures, issued>>

\* Any other method and path.
routeNotFound ==
  /\ Ready
  /\ out' = Message("other", 0, 404, "Route not found")
  /\ UNCHANGED <<server, file, users, req, failures, issued>>

\* POST /api/users: createUser up to its first await.
createUserStart ==
  /\ Ready
  /\ HasFree
  /\ req' = [req EXCEPT ![NewSlot] = [Free EXCEPT !.pc = "body", !.op = "create"]]
  /\ UNCHANGED <<server, file, users, out, failures, issued>>

\* createUser that assigns an id only to a payload that carries none:
\* newUser.id = newUser.id || maxId + 1.
createUserKeepsId(r, b, max) ==
  IF ~b.ok
  THEN /\ out' = Message("create", 0, 400, "Invalid JSON")
       /\ req' = [req EXCEPT ![r] = Free]
       /\ UNCHANGED <<users, issued>>
  ELSE IF NameThrows(b)
  THEN /\ out' = Message("create", 0, 400, "TypeError")
       /\ req' = [req EXCEPT ![r] = Free]
       /\ UNCHANGED <<users, issued>>
  ELSE IF ~Truthy(NameOf(b))
  THEN /\ out' = Message("create", 0, 400, "Name is a required field")
       /\ req' = [req EXCEPT ![r] = Free]
       /\ UNCHANGED <<users, issued>>
  ELSE /\ max < MaxId
       /\ users' = Append(users, IF Truthy(Get(b.obj, "id")) THEN b.obj
                                 ELSE Put(b.obj, "id", Num(max + 1)))
       /\ req' = [req EXCEPT ![r] = [@ EXCEPT !.pc = "write",
                                               !.id = Get(users'[Len(users')], "id").n,
                                               !.at = Len(users) + 1,
                                               !.snap = writeData(users')]]
       /\ issued' = issued \cup {Get(users'[Len(users')], "id").n}
       /\ UNCHANGED out

\* createUser once its body has been parsed as b; max is its maxId.
createUserParsed(r, b, max) ==
  IF ~b.ok
  THEN /\ out' = Message("create", 0, 400, "Invalid JSON")
       /\ req' = [req EXCEPT ![r] = Free]
       /\ UNCHANGED <<users, issued>>
  ELSE IF NameThrows(b)
  THEN /\ out' = Message("create", 0, 400, "TypeError")
       /\ req' = [req EXCEPT ![r] = Free]
       /\ UNCHANGED <<users, issued>>
  ELSE IF ~Truthy(NameOf(b))
  THEN /\ out' = Message("create", 0, 400, "Name is a required field")
       /\ req' = [req EXCEPT ![r] = Free]
       /\ UNCHANGED <<users, issued>>
  ELSE /\ max < MaxId
       /\ users' = Append(users, Put(b.obj, "id", Num(max + 1)))
       /\ req' = [req EXCEPT ![r] = [@ EXCEPT !.pc = "write",
                                               !.id = max + 1,
                                               !.at = Len(users) + 1,
                                               !.snap = writeData(users')]]
       /\ issued' = issued \cup {max + 1}
       /\ UNCHANGED out

\* createUser from the end of the request body to its second await.
createUserBody(r, body) ==
  /\ Ready
  /\ req[r].pc = "body"
  /\ req[r].op = "create"
  /\ createUserParsed(r, parseRequestBody(body), maxId(users))
  /\ UNCHANGED <<server, file, failures>>

\* users[userIndex] = { name }: the record replaced, not its name.
assignRecord(a, userIndex, name) == [a EXCEPT ![userIndex] = <<Prop("name", name)>>]

\* users[userIndex].name = name
assignName(a, userIndex, name) == [a EXCEPT ![userIndex] = Put(@, "name", name)]

\* updateUser that waits for the body before it looks at userIndex.
updateUserStartReadsBody(id) ==
  /\ Ready
  /\ HasFree
  /\ LET i == findIndex(users, id)
     IN req' = [req EXCEPT ![NewSlot] =
                  [Free EXCEPT !.pc = "body", !.op = "update", !.id = id,
                               !.userIndex = IF i = 0 THEN Len(users) + 1 ELSE i]]
  /\ UNCHANGED <<server, file, users, out, failures, issued>>

\* PUT /api/users/:id: updateUser up to its first await.
updateUserStart(id) ==
  /\ Ready
  /\ HasFree
  /\ LET userIndex == findIndex(users, id)
     IN IF userIndex = 0
        THEN /\ out' = Message("update", id, 404, "User Not Found")
             /\ UNCHANGED req
        ELSE /\ req' = [req EXCEPT ![NewSlot] =
                          [Free EXCEPT !.pc = "body", !.op = "update", !.id = id,
                                       !.userIndex = userIndex]]
             /\ UNCHANGED out
  /\ UNCHANGED <<server, file, users, failures, issued>>

\* updateUser once its body has been parsed as b. The assignment to
\* users[userIndex].name throws a TypeError when the array has no element at
\* userIndex any more.
updateUserParsed(r, b, userIndex) ==
  IF ~b.ok
  THEN /\ out' = Message("update", req[r].id, 400, "Invalid JSON")
       /\ req' = [req EXCEPT ![r] = Free]
       /\ UNCHANGED users
  ELSE IF NameThrows(b)
  THEN /\ out' = Message("update", req[r].id, 400, "TypeError")
       /\ req' = [req EXCEPT ![r] = Free]
       /\ UNCHANGED users
  ELSE IF ~Truthy(NameOf(b))
  THEN /\ out' = Message("update", req[r].id, 400, "Name is a required field")
       /\ req' = [req EXCEPT ![r] = Free]
       /\ UNCHANGED users
  ELSE IF userIndex > Len(users)
  THEN /\ out' = Message("update", req[r].id, 400, "TypeError")
       /\ req' = [req EXCEPT ![r] = Free]
       /\ UNCHANGED users
  ELSE /\ users' = assignName(users, userIndex, NameOf(b))
       /\ req' = [req EXCEPT ![r] = [@ EXCEPT !.pc = "write",
                                               !.snap = writeData(users')]]
       /\ UNCHANGED out

\* updateUser from the end of the request body to its second await.
updateUserBody(r, body) ==
  /\ Ready
  /\ req[r].pc = "body"
  /\ req[r].op = "update"
  /\ updateUserParsed(r, parseRequestBody(body), req[r].userIndex)
  /\ UNCHANGED <<server, file, failures, issued>>

\* users.splice(userIndex): everything from userIndex on is removed.
spliceRest(a, userIndex) == SubSeq(a, 1, userIndex - 1)

\* users.splice(userIndex, 1)
splice(a, userIndex) ==
  [i \in 1..(Len(a) - 1) |-> IF i < userIndex THEN a[i] ELSE a[i + 1]]

\* What a handler's newUser refers to once the element at userIndex has been
\* spliced out of users.
AfterSplice(q, userIndex) ==
  IF q.at = userIndex THEN [q EXCEPT !.at = 0, !.obj = users[userIndex]]
  ELSE IF q.at > userIndex THEN [q EXCEPT !.at = @ - 1]
  ELSE q

\* DELETE /api/users/:id: deleteUser up to its await.
deleteUser(id) ==
  /\ Ready
  /\ HasFree
  /\ LET userIndex == findIndex(users, id)
     IN IF userIndex # 0
        THEN /\ users' = splice(users, userIndex)
             /\ req' = [q \in Slots |->
                          IF q = NewSlot
                          THEN [Free EXCEPT !.pc = "write", !.op = "delete", !.id = id,
                                            !.snap = writeData(users')]
                          ELSE AfterSplice(req[q], userIndex)]
             /\ UNCHANGED out
        ELSE /\ out' = Message("delete", id, 404, "User Not Found")
             /\ UNCHANGED <<users, req>>
  /\ UNCHANGED <<server, file, failures, issued>>

\* fs.promises.writeFile resolves, and the handler runs to its end.
writeDone(r) ==
  /\ Ready
  /\ req[r].pc = "write"
  /\ file' = File(req[r].snap)
  /\ out' = CASE req[r].op = "create" -> Record("create", req[r].id, 201, NewUserOf(req[r]))
              [] req[r].op = "update" ->
                   IF req[r].userIndex <= Len(users)
                   THEN Record("update", req[r].id, 200, users[req[r].userIndex])
                   ELSE Answer("update", req[r].id, 200, "", "none", <<>>, <<>>)
              [] OTHER -> Answer("delete", req[r].id, 204, "", "none", <<>>, <<>>)
  /\ req' = [req EXCEPT ![r] = Free]
  /\ UNCHANGED <<server, users, failures, issued>>

\* A handler that swallows the rejection of writeData and answers as if the
\* write had completed.
writeFailSwallowed(r) ==
  /\ Ready
  /\ req[r].pc = "write"
  /\ failures < MaxFailures
  /\ failures' = failures + 1
  /\ \E f \in {file, File(<<>>)} : file' = f
  /\ out' = CASE req[r].op = "create" -> Record("create", req[r].id, 201, NewUserOf(req[r]))
              [] req[r].op = "update" -> Answer("update", req[r].id, 200, "", "none", <<>>, <<>>)
              [] OTHER -> Answer("delete", req[r].id, 204, "", "none", <<>>, <<>>)
  /\ req' = [req EXCEPT ![r] = Free]
  /\ UNCHANGED <<server, users, issued>>

\* fs.promises.writeFile rejects: the file is as it was, or was truncated when
\* it was opened. createUser and updateUser catch the error; deleteUser has no
\* try/catch, so its promise rejects and no response is sent.
writeFail(r) ==
  /\ Ready
  /\ req[r].pc = "write"
  /\ failures < MaxFailures
  /\ failures' = failures + 1
  /\ \E f \in {file, File(<<>>)} : file' = f
  /\ out' = IF req[r].op = "delete"
            THEN Answer("delete", req[r].id, 0, "", "none", <<>>, <<>>)
            ELSE Message(req[r].op, req[r].id, 400, "write failed")
  /\ req' = [req EXCEPT ![r] = Free]
  /\ UNCHANGED <<server, users, issued>>

\* The response leaves the server.
deliver ==
  /\ out # NoAnswer
  /\ out' = NoAnswer
  /\ UNCHANGED <<server, file, users, req, failures, issued>>

\* The process is stopped between requests and started again:
\* initializeServer() of the new process.
Restart ==
  /\ server # "init"
  /\ Idle
  /\ out = NoAnswer
  /\ Loaded(readData(file))
  /\ UNCHANGED <<file, req, out, failures>>

\* ---------------------------------------------------------- specifications
Init ==
  /\ server = "init"
  /\ file \in InitFiles
  /\ users = <<>>
  /\ req = [r \in Slots |-> Free]
  /\ out = NoAnswer
  /\ failures = 0
  /\ issued = {}

\* One run of the server; requests may overlap at their await points and a
\* write may fail.
Next ==
  \/ Startup
  \/ getAllUsers
  \/ \E id \in ReqIds : getUserById(id)
  \/ routeNotFound
  \/ createUserStart
  \/ \E r \in Slots, body \in PlainBodies : createUserBody(r, body)
  \/ \E id \in ReqIds : updateUserStart(id)
  \/ \E r \in Slots, body \in Bodies : updateUserBody(r, body)
  \/ \E id \in ReqIds : deleteUser(id)
  \/ \E r \in Slots : writeDone(r)
  \/ \E r \in Slots : writeFail(r)
  \/ deliver

Spec == Init /\ [][Next]_vars

\* Runs with restarts between requests.
NextRestart ==
  \/ Next
  \/ Restart

RestartSpec == Init /\ [][NextRestart]_vars

\* One run in which requests are handled one at a time: a request arrives
\* only when no handler is in flight.
InitSeq ==
  /\ server = "init"
  /\ file \in SeededFiles
  /\ users = <<>>
  /\ req = [r \in Slots |-> Free]
  /\ out = NoAnswer
  /\ failures = 0
  /\ issued = {}

NextSeq ==
  \/ Startup
  \/ getAllUsers /\ Idle
  \/ \E id \in ReqIds : getUserById(id) /\ Idle
  \/ routeNotFound /\ Idle
  \/ createUserStart /\ Idle
  \/ \E r \in Slots, body \in Bodies : createUserBody(r, body)
  \/ \E id \in ReqIds : updateUserStart(id) /\ Idle
  \/ \E r \in Slots, body \in Bodies : updateUserBody(r, body)
  \/ \E id \in ReqIds : deleteUser(id) /\ Idle
  \/ \E r \in Slots : writeDone(r)
  \/ \E r \in Slots : writeFail(r)
  \/ deliver

SeqSpec == InitSeq /\ [][NextSeq]_vars

\* Requests one at a time, every write succeeds, restarts between requests.
NextSeqOk ==
  \/ Startup
  \/ getAllUsers /\ Idle
  \/ \E id \in ReqIds : getUserById(id) /\ Idle
  \/ routeNotFound /\ Idle
  \/ createUserStart /\ Idle
  \/ \E r \in Slots, body \in Bodies : createUserBody(r, body)
  \/ \E id \in ReqIds : updateUserStart(id) /\ Idle
  \/ \E r \in Slots, body \in Bodies : updateUserBody(r, body)
  \/ \E id \in ReqIds : deleteUser(id) /\ Idle
  \/ \E r \in Slots : writeDone(r)
  \/ deliver
  \/ Restart

SeqOkSpec == InitSeq /\ [][NextSeqOk]_vars

\* ------------------------------------------------------------------ claims
\* Notions the claims are stated with.
HasId(a, id) == \E i \in 1..Len(a) : Get(a[i], "id") = Num(id)
Largest(a) == IF a = <<>> THEN 0 ELSE CHOOSE m \in Ids(a) : \A k \in Ids(a) : k <= m
\* The body is a JSON object whose name is a non-empty string.
NamePresent(body) ==
  LET b == parseRequestBody(body)
  IN b.ok /\ b.kind = "object" /\ Get(b.obj, "name").t = "str" /\ Get(b.obj, "name").s # ""
InFlight == {r \in Slots : req[r].pc # "free"}

\* C1: no two records of the in-memory collection share an id, in every
\* reachable state of a run in which requests may overlap.
UniqueIds ==
  \A i, j \in 1..Len(users) : i # j => Get(users[i], "id") # Get(users[j], "id")

\* Two records are in the collection while two handlers are in flight, one of
\* them waiting for its write.
UniqueIdsWitness ==
  /\ Len(users) = 2
  /\ Cardinality(InFlight) = 2
  /\ \E r \in Slots : req[r].pc = "write"

\* C2: the id a create gives to its record is none of the ids a record has
\* had before, deleted records included: an id enters the collection only if
\* no record had it before.
NeverReusesId ==
  [][server = "serving" => \A id \in Ids(users') \ Ids(users) : id \notin issued]_vars

RejectionOf(body) ==
  LET b == parseRequestBody(body)
  IN IF ~b.ok THEN "Invalid JSON"
     ELSE IF b.kind = "scalar" /\ b.val = Null THEN "TypeError"
     ELSE "Name is a required field"
\* No handler starts a write in this step.
NoWriteStarted == \A q \in Slots : req'[q].pc = "write" => req[q].pc = "write"

\* C4 as stated: every create or update whose payload has no non-empty name,
\* or is not valid JSON, is answered 400 with "Name is a required field" or
\* "Invalid JSON", the collection unchanged and no write started.
InvalidPayloadAnswered400 ==
  [][\A body \in Bodies : ~NamePresent(body) =>
       /\ \A r \in Slots :
            (createUserBody(r, body) \/ updateUserBody(r, body)) =>
              /\ out'.status = 400
              /\ out'.msg = IF parseRequestBody(body).ok
                            THEN "Name is a required field" ELSE "Invalid JSON"
              /\ users' = users /\ file' = file /\ NoWriteStarted
       /\ \A id \in ReqIds :
            (updateUserStart(id) /\ out' # NoAnswer) => out'.status = 400
     ]_vars

\* C4 as amended: a create, or an update that found its id when it arrived,
\* whose payload has no non-empty name or is not valid JSON is answered 400,
\* the collection unchanged and no write started; the message is "Invalid
\* JSON" for a body that is not JSON, the TypeError's for the body null, and
\* "Name is a required field" otherwise.
InvalidPayloadRejected ==
  [][\A body \in Bodies : ~NamePresent(body) =>
       \A r \in Slots :
         (createUserBody(r, body) \/ updateUserBody(r, body)) =>
           /\ out'.status = 400
           /\ out'.body = "message"
           /\ out'.msg = RejectionOf(body)
           /\ users' = users /\ file' = file /\ NoWriteStarted
           /\ req'[r].pc = "free"
     ]_vars

\* An update that found its id was answered 400 for its name, with records
\* in the collection.
InvalidPayloadRejectedWitness ==
  /\ out.op = "update"
  /\ out.status = 400
  /\ out.msg = "Name is a required field"
  /\ Len(users) > 0

\* C5: with requests one at a time, an update of a present id with a
\* non-empty name changes the name of the record with that id and nothing
\* else (its id, its other fields, the place of each field, its position, the
\* other records); when its write completes it answers 200 with that record.
UpdateChangesNameOnly ==
  [][\A r \in Slots :
       /\ \A body \in Bodies :
            (updateUserBody(r, body) /\ NamePresent(body)) =>
              /\ HasId(users, req[r].id)
              /\ LET i == CHOOSE i \in 1..Len(users) : Get(users[i], "id") = Num(req[r].id)
                 IN /\ Len(users') = Len(users)
                    /\ \A j \in 1..Len(users) : j # i => users'[j] = users[j]
                    /\ Len(users'[i]) = Len(users[i])
                    /\ \A p \in 1..Len(users[i]) :
                         /\ users'[i][p].k = users[i][p].k
                         /\ users[i][p].k # "name" => users'[i][p] = users[i][p]
                    /\ Get(users'[i], "name") = Get(parseRequestBody(body).obj, "name")
              /\ req'[r].pc = "write"
       /\ (writeDone(r) /\ req[r].op = "update") =>
              /\ out'.status = 200
              /\ out'.body = "record"
              /\ Get(out'.rec, "id") = Num(req[r].id)
              /\ \E i \in 1..Len(users) : users[i] = out'.rec
     ]_vars

\* An update of record 2 was answered 200 with the record, renamed and with
\* its email kept, the other records in place.
UpdateChangesNameOnlyWitness ==
  /\ out.op = "update"
  /\ out.status = 200
  /\ Get(out.rec, "id") = Num(2)
  /\ Get(out.rec, "name") = Str("Alice")
  /\ Get(out.rec, "email") = Str("bob@example.org")
  /\ Len(users) = 3

\* C6: getById, update and delete of an id no record has are answered 404
\* "User Not Found" at once: the collection and the file are unchanged, no
\* handler is left waiting (for a body or a write), whatever the payload.
UnknownIdNotFound ==
  [][\A id \in ReqIds : ~HasId(users, id) =>
       ((getUserById(id) \/ updateUserStart(id) \/ deleteUser(id)) =>
          /\ out'.status = 404
          /\ out'.msg = "User Not Found"
          /\ users' = users /\ file' = file /\ req' = req)
     ]_vars

\* A delete of an id that is not there was answered 404 while the collection
\* had records and another handler was in flight.
UnknownIdNotFoundWitness ==
  /\ out.op = "delete"
  /\ out.status = 404
  /\ Len(users) > 0
  /\ InFlight # {}

StoreMirrorsCollection ==
  [][  /\ (server' = "serving" /\ Idle') => readData(file') = [ok |-> TRUE, data |-> users']
       /\ \A r \in Slots : writeDone(r) => file' = File(stringify(users'))
     ]_vars

\* Between requests, two records in memory and the file their serialization.
StoreMirrorsCollectionWitness ==
  /\ server = "serving"
  /\ Idle
  /\ Len(users) = 2
  /\ file = File(stringify(users))
  /\ file # File(TwoUsers)

\* C9: a record leaves the collection only by a delete of its id, in runs
\* with overlapping requests, failing writes and restarts.
RecordsStayUntilDeleted ==
  [][\A id \in Ids(users) \ Ids(users') : deleteUser(id)]_vars

\* C10: what is saved is what is loaded: load() after save(records) gives
\* records, and load() after save(load()) gives what load() gave.
RoundTrip ==
  /\ readData(File(writeData(users))) = [ok |-> TRUE, data |-> users]
  /\ LET l == readData(file)
     IN l.ok => readData(File(writeData(l.data))) = l

\* The hand-written file of three records has been loaded: saving it will
\* rewrite the text.
RoundTripWitness ==
  /\ Len(users) = 3
  /\ file = File(Seeded)
  /\ writeData(users) # Seeded

\* C11: readData of a file that is missing, or empty, gives the empty
\* collection without throwing: startup then leaves the server serving with
\* users = [] and the file as it was, and the first create made in such a run
\* (no record has had an id yet) gives its record id 1.
LoadOfNothingIsEmpty ==
  [][  /\ \A f \in {NoFile, File(<<>>)} : readData(f) = [ok |-> TRUE, data |-> <<>>]
       /\ (Startup /\ file \in {NoFile, File(<<>>)}) =>
            (server' = "serving" /\ users' = <<>> /\ file' = file)
       /\ \A r \in Slots, body \in Bodies :
            (createUserBody(r, body) /\ NamePresent(body) /\ issued = {}) =>
              /\ Len(users') = 1
              /\ Get(users'[1], "id") = Num(1)
              /\ req'[r].id = 1
     ]_vars

\* The server started without a file, and a create has pushed its record,
\* with id 1, while the file is still missing.
LoadOfNothingIsEmptyWitness ==
  /\ server = "serving"
  /\ file = NoFile
  /\ Len(users) = 1
  /\ \E r \in Slots : req[r].pc = "write" /\ req[r].op = "create" /\ req[r].id = 1

\* C12: requests are handled only by a server that has loaded its collection:
\* every step that touches a handler, a response or the file is taken by a
\* serving server; startup leaves the server serving, with the collection
\* readData returned, exactly when readData did not throw, and exited (with
\* exit code 1) when it threw, as for malformed content and for an I/O error
\* other than a missing file; an exited process takes no step.
StartupOrdering ==
  [][  /\ (req' # req \/ out' # out \/ file' # file) =>
            (server = "serving" /\ server' = "serving")
       /\ Startup =>
            /\ server' = IF readData(file).ok THEN "serving" ELSE "exited"
            /\ readData(file).ok => users' = readData(file).data
            /\ file \in {Unreadable, File(<<P("["), P("{")>>)} => server' = "exited"
       /\ server # "exited"
     ]_vars

\* The process has exited on a users.json with malformed content.
StartupOrderingWitness ==
  /\ server = "exited"
  /\ file = File(<<P("["), P("{")>>)
  /\ users = <<>>

\* The ids of a collection, in its order, and those of them that are in ids.
IdSeq(a) == [i \in 1..Len(a) |-> Get(a[i], "id").n]
IdsWithin(a, ids) == SelectSeq(IdSeq(a), LAMBDA id : id \in ids)

\* C13: the collection is kept in insertion order (in every step of a run the
\* records that stay keep their relative order and the records that come are
\* put after them); listAll answers 200 with the whole collection in that
\* order; getById of an id that is there answers 200 with the first record
\* that has it; both answers depend on the collection only, and neither
\* request changes the collection, the file or a handler in flight.
ListInInsertionOrder ==
  [][  /\ server = "serving" =>
            LET kept == IdsWithin(users, Ids(users'))
            IN /\ SubSeq(IdSeq(users'), 1, Len(kept)) = kept
               /\ \A i \in (Len(kept) + 1)..Len(users') : IdSeq(users')[i] \notin Ids(users)
       /\ getAllUsers =>
            /\ out' = Answer("list", 0, 200, "", "list", <<>>, users)
            /\ users' = users /\ file' = file /\ req' = req
       /\ \A id \in ReqIds :
            (getUserById(id) /\ HasId(users, id)) =>
              /\ out'.status = 200
              /\ out'.body = "record"
              /\ \E i \in 1..Len(users) :
                   /\ out'.rec = users[i]
                   /\ Get(users[i], "id") = Num(id)
                   /\ \A j \in 1..(i - 1) : Get(users[j], "id") # Num(id)
              /\ users' = users /\ file' = file /\ req' = req
     ]_vars

\* listAll answered with two records, the second made by a create of this
\* run whose write is still pending.
ListInInsertionOrderWitness ==
  /\ out.op = "list"
  /\ out.status = 200
  /\ out.list = users
  /\ Len(users) = 2
  /\ \E r \in Slots : req[r].pc = "write" /\ req[r].op = "create" /\ req[r].at = 2

\* C14: a write that fails after a create, update or delete has changed the
\* collection is answered with a 5xx status.
WriteFailureIs5xx ==
  [][\A r \in Slots : writeFail(r) => (out'.status >= 500 /\ out'.status <= 599)]_vars

\* C15: a record keeps the id create gave it: in every step the ids of the
\* collection, place by place, stay as they are, but for the id a create
\* appends and the id a delete takes out; an update changes no id and adds no
\* field, whatever else its payload carries (an id and an email, as the body
\* of Bob does).
IdNeverChanges ==
  [][server = "serving" =>
       /\ \/ IdSeq(users') = IdSeq(users)
          \/ /\ \E r \in Slots, body \in Bodies : createUserBody(r, body)
             /\ SubSeq(IdSeq(users'), 1, Len(users)) = IdSeq(users)
             /\ Len(users') = Len(users) + 1
          \/ \E id \in Ids(users) :
               /\ deleteUser(id)
               /\ IdSeq(users') = SelectSeq(IdSeq(users), LAMBDA x : x # id)
       /\ \A r \in Slots, body \in Bodies :
            updateUserBody(r, body) =>
              /\ IdSeq(users') = IdSeq(users)
              /\ \A i \in 1..Len(users) : Keys(users'[i]) = Keys(users[i])
     ]_vars

\* An update whose payload carries the id 1 and an email was answered 200
\* with the record of id 2, renamed, its id kept and no email added.
IdNeverChangesWitness ==
  /\ out.op = "update"
  /\ out.status = 200
  /\ Get(out.rec, "id") = Num(2)
  /\ Get(out.rec, "name") = Str("Bob")
  /\ Keys(out.rec) = {"name", "id"}
  /\ users[2] = out.rec
  /\ Get(users[1], "name") = Str("Alice")
  /\ Get(users[1], "id") = Num(1)

\* C16: an update that found its id on arrival and whose record is still in
\* the collection when its body has arrived, whatever other requests were
\* handled in between, gives the payload's name to the record with the
\* requested id and changes no other record; the record it answers with when
\* its write completes has the requested id.
OverlappedUpdateHitsItsRecord ==
  [][\A r \in Slots :
       /\ \A body \in Bodies :
            (updateUserBody(r, body) /\ NamePresent(body) /\ HasId(users, req[r].id)) =>
              /\ Len(users') = Len(users)
              /\ \A i \in 1..Len(users) :
                   IF Get(users[i], "id") = Num(req[r].id)
                   THEN Get(users'[i], "name") = Get(parseRequestBody(body).obj, "name")
                   ELSE users'[i] = users[i]
       /\ (writeDone(r) /\ req[r].op = "update" /\ HasId(users, req[r].id)) =>
            (out'.body = "record" /\ Get(out'.rec, "id") = Num(req[r].id))
     ]_vars

\* C17: whenever no handler is in flight and no write has failed, so that
\* every write that was started has completed, the backing file reads back
\* as the in-memory collection.
StoreCatchesUp ==
  (server = "serving" /\ Idle /\ failures = 0) =>
    readData(file) = [ok |-> TRUE, data |-> users]

\* The statuses that acknowledge a mutation.
Success == {200, 201, 204}

\* C18: a response 201, 200 or 204 to a create, update or delete is sent only
\* in the step in which the write that this request started completes, the
\* file then holding the text this request handed to writeData; a write that
\* fails is followed by no such response.
AckAfterPersist ==
  [][  /\ (out' # out /\ out'.op \in {"create", "update", "delete"}
             /\ out'.status \in Success) =>
            \E r \in Slots :
              /\ writeDone(r)
              /\ req[r].pc = "write"
              /\ req[r].op = out'.op
              /\ req[r].id = out'.id
              /\ file' = File(req[r].snap)
              /\ req'[r].pc = "free"
       /\ \A r \in Slots : writeFail(r) => out'.status \notin Success
     ]_vars

\* A delete is acknowledged with 204 after an earlier write had failed, while
\* the write of another request is still pending.
AckAfterPersistWitness ==
  /\ out.op = "delete"
  /\ out.status = 204
  /\ failures = 1
  /\ \E r \in Slots : req[r].pc = "write"

\* C19: a handler never ends without having sent a response: the step in
\* which a handler in flight ends is a step that sends a response with a
\* status.
EveryRequestAnswered ==
  [][\A r \in Slots :
       (req[r].pc # "free" /\ req'[r].pc = "free") => (out' # NoAnswer /\ out'.status # 0)
     ]_vars

\* C20: with requests one at a time, a mutation whose write fails is not kept
\* in memory. Up to the first failing write the file reads back as the
\* collection before the request (C8), so when the failed write has left the
\* file as it was, the collection after the request is what the file reads
\* back as; and in any case the record of a failed create is not in the
\* collection and the record of a failed delete still is.
FailedWriteRolledBack ==
  [][\A r \in Slots : writeFail(r) =>
       /\ file' = file => readData(file) = [ok |-> TRUE, data |-> users']
       /\ req[r].op = "create" => ~HasId(users', req[r].id)
       /\ req[r].op = "delete" => HasId(users', req[r].id)
     ]_vars

\* The keys of an object in their order, and those of them that are not key.
KeySeq(o) == [i \in 1..Len(o) |-> o[i].k]
KeysBut(o, key) == SelectSeq(KeySeq(o), LAMBDA k : k # key)

\* C21: the record a create appends is the payload with the id the server
\* assigned: every field of the payload but id has its submitted value and
\* its place among the fields, no other field is added, and the id is 1 + the
\* largest id of the collection whether or not the payload carries an id, so
\* that no record of the collection has the new record's id; the text handed
\* to writeData reads back as the collection with that record.
CreateKeepsPayloadButId ==
  [][\A r \in Slots, body \in Bodies :
       (createUserBody(r, body) /\ NamePresent(body)) =>
         LET payload == parseRequestBody(body).obj
             stored == users'[Len(users')]
         IN /\ Len(users') = Len(users) + 1
            /\ \A k \in Keys(payload) \ {"id"} : Get(stored, k) = Get(payload, k)
            /\ Keys(stored) = Keys(payload) \cup {"id"}
            /\ KeysBut(stored, "id") = KeysBut(payload, "id")
            /\ Get(stored, "id") = Num(Largest(users) + 1)
            /\ \A i \in 1..Len(users) : Get(users'[i], "id") # Get(stored, "id")
            /\ readData(File(req'[r].snap)) = [ok |-> TRUE, data |-> users']
     ]_vars

\* A create whose payload carried the id 1, the name Bob and an email was
\* answered 201 with the record stored as second: id 2, name and email as
\* submitted, while the first record has id 1.
CreateKeepsPayloadButIdWitness ==
  /\ out.op = "create"
  /\ out.status = 201
  /\ Len(users) = 2
  /\ out.rec = users[2]
  /\ KeySeq(users[2]) = <<"id", "name", "email">>
  /\ Get(users[2], "id") = Num(2)
  /\ Get(users[2], "name") = Str("Bob")
  /\ Get(users[2], "email") = Str("bob@example.org")
  /\ Get(users[1], "id") = Num(1)

\* The ids of a collection grow strictly from each record to the next.
Increasing(a) == \A i, j \in 1..Len(a) : i < j => IdSeq(a)[i] < IdSeq(a)[j]

\* C22: started from no record or from a file whose ids grow with position,
\* the ids of the collection grow strictly with position after every step
\* (and in the initial state, where the collection is empty): a create
\* appends an id larger than every id present, update and delete leave the
\* order of the ids they keep.
IdsIncreaseWithPosition ==
  [][  /\ Increasing(users')
       /\ \A r \in Slots, body \in Bodies :
            (createUserBody(r, body) /\ NamePresent(body)) =>
              \A id \in Ids(users) : id < IdSeq(users')[Len(users')]
       /\ (\/ \E r \in Slots, body \in Bodies : updateUserBody(r, body)
           \/ \E id \in ReqIds : deleteUser(id)) =>
            IdSeq(users') = IdsWithin(users, Ids(users'))
     ]_vars

\* Ids 1 and 2 in this order, the 2 given by a create whose write is pending
\* while an update is in flight as well.
IdsIncreaseWithPositionWitness ==
  /\ IdSeq(users) = <<1, 2>>
  /\ \E r \in Slots : req[r].pc = "write" /\ req[r].op = "create" /\ req[r].id = 2
  /\ \E q \in Slots : req[q].pc # "free" /\ req[q].op = "update"

=============================================================================
